---- MODULE Spec2Model ----
(***************************************************************************)
(* Model of area.py: the row Store, the tkinter Window/UI handlers that    *)
(* act on it (add row, delete row, edit field, select unit, calculate,     *)
(* save, load) and the entry validation callback.                          *)
(*                                                                         *)
(* A text is a sequence of one-character strings.  "sup2" stands for the   *)
(* single character U+00B2 (superscript two), for which str.isdigit() is   *)
(* True while the regular expression class \d does not match it.           *)
(* A float is modelled as an exact decimal [m, e] = m * 10^-e, normalised; *)
(* binary rounding error of IEEE doubles is not modelled.                  *)
(***************************************************************************)
EXTENDS Integers, Sequences, FiniteSets, TLC

VARIABLES
    frames,     \* children of _input_frame: the live row frames (object ids)
    handle,     \* handle[r]: the id captured by the delete closure of frame r
    text,       \* text[r]: contents of the three StringVars created for frame r
    storage,    \* Store.storage: insertion-ordered dict, as a sequence of items
    unit_id,    \* Window.unit_id (tk.IntVar)
    result,     \* Window._result (tk.StringVar), as the values it was formatted from
    file,       \* the document written by Save, or NoFile
    assigned,   \* history: the identifiers Store.add has assigned so far
    event       \* history: the user action handled last, and how it ended

vars == <<frames, handle, text, storage, unit_id, result, file, assigned, event>>

\* ---------------------------------------------------------------- bounds
MaxRows == 2        \* row frames alive at the same time
MaxLen == 4         \* characters typed into one entry (SpecEntry)

\* ------------------------------------------------------------ characters
DecimalDigits == {"0", "1", "2", "3", "4", "5", "6", "7", "8", "9"}

DigitVal(c) ==
    CASE c = "0" -> 0 [] c = "1" -> 1 [] c = "2" -> 2 [] c = "3" -> 3
      [] c = "4" -> 4 [] c = "5" -> 5 [] c = "6" -> 6 [] c = "7" -> 7
      [] c = "8" -> 8 [] c = "9" -> 9

DigitChar(d) ==
    CASE d = 0 -> "0" [] d = 1 -> "1" [] d = 2 -> "2" [] d = 3 -> "3"
      [] d = 4 -> "4" [] d = 5 -> "5" [] d = 6 -> "6" [] d = 7 -> "7"
      [] d = 8 -> "8" [] d = 9 -> "9"

\* str.isdigit() of a one-character key
isdigit(key) == key \in DecimalDigits \cup {"sup2"}

AllIn(t, S) == \A i \in 1..Len(t) : t[i] \in S

\* re.match(r"^\d+\.?\d*$", t): some prefix of one or more digits, then an
\* optional point, then digits to the end
ReMatch(t) ==
    \E k \in 1..Len(t) :
        /\ AllIn(SubSeq(t, 1, k), DecimalDigits)
        /\ \/ k = Len(t)
           \/ /\ t[k + 1] = "."
              /\ AllIn(SubSeq(t, k + 2, Len(t)), DecimalDigits)

_validate_entry(new_val, val, key) ==
    LET is_digit == isdigit(key) IN
    IF new_val = <<>> THEN TRUE
    ELSE IF val = <<>> THEN is_digit
    ELSE IF ~(is_digit \/ key = ".") THEN FALSE
    ELSE ReMatch(new_val)

\* --------------------------------------------------------------- numbers
RECURSIVE Pow10(_)
Pow10(n) == IF n = 0 THEN 1 ELSE 10 * Pow10(n - 1)

RECURSIVE Norm(_, _)
Norm(m, e) ==
    IF e > 0 /\ m % 10 = 0 THEN Norm(m \div 10, e - 1) ELSE [m |-> m, e |-> e]

Zero == Norm(0, 0)
One == Norm(1, 0)

Max(a, b) == IF a >= b THEN a ELSE b
Abs(n) == IF n < 0 THEN 0 - n ELSE n

Mul(a, b) == Norm(a.m * b.m, a.e + b.e)

Plus(a, b) ==
    LET e == Max(a.e, b.e) IN
    Norm(a.m * Pow10(e - a.e) + b.m * Pow10(e - b.e), e)

RECURSIVE DigitsValue(_)
DigitsValue(t) ==
    IF t = <<>> THEN 0
    ELSE 10 * DigitsValue(SubSeq(t, 1, Len(t) - 1)) + DigitVal(t[Len(t)])

RECURSIVE IntStr(_)
IntStr(n) ==
    IF n < 10 THEN <<DigitChar(n)>> ELSE Append(IntStr(n \div 10), DigitChar(n % 10))

RECURSIVE FracStr(_, _)
FracStr(n, width) ==
    IF width = 0 THEN <<>>
    ELSE Append(FracStr(n \div 10, width - 1), DigitChar(n % 10))

\* float(s) for a text over the model's characters: an optional sign, digits
\* with at most one point and at least one digit; anything else raises
ValueError == [m |-> 0, e |-> 0 - 1]

PyFloat(t) ==
    LET neg == t # <<>> /\ t[1] = "-"
        body == IF neg THEN Tail(t) ELSE t
        dots == {i \in 1..Len(body) : body[i] = "."}
        dot == IF dots = {} THEN Len(body) + 1 ELSE CHOOSE i \in dots : TRUE
        ipart == SubSeq(body, 1, dot - 1)
        fpart == SubSeq(body, dot + 1, Len(body))
        mag == DigitsValue(ipart \o fpart)
    IN  IF /\ Cardinality(dots) <= 1
           /\ AllIn(ipart \o fpart, DecimalDigits)
           /\ ipart \o fpart # <<>>
        THEN Norm(IF neg THEN 0 - mag ELSE mag, Len(fpart))
        ELSE ValueError

\* a faulty str(x): the fractional digits are dropped
FloatStrTruncated(x) ==
    (IF x.m < 0 THEN <<"-">> ELSE <<>>) \o IntStr(Abs(x.m) \div Pow10(x.e)) \o <<".", "0">>

\* str(x) of a float
FloatStr(x) ==
    LET a == Abs(x.m)
        p == Pow10(x.e)
        sign == IF x.m < 0 THEN <<"-">> ELSE <<>>
    IN  sign \o IntStr(a \div p) \o <<".">>
             \o (IF x.e = 0 THEN <<"0">> ELSE FracStr(a % p, x.e))

\* a faulty to_float: 1.0 where float() raises
to_floatDefaultOne(t) == IF PyFloat(t) = ValueError THEN One ELSE PyFloat(t)

\* Store.to_float: float(strvar.get()), 0.0 where it raises
to_float(t) == IF PyFloat(t) = ValueError THEN Zero ELSE PyFloat(t)

\* ------------------------------------------------- values of a document
\* A pickled field is a float, an int or a string.
FloatV(x) == [k |-> "float", m |-> x.m, e |-> x.e, s |-> <<>>]
IntV(n) == [k |-> "int", m |-> n, e |-> 0, s |-> <<>>]
StrV(t) == [k |-> "str", m |-> 0, e |-> 0, s |-> t]

\* str(x)
PyStr(x) ==
    CASE x.k = "float" -> FloatStr([m |-> x.m, e |-> x.e])
      [] x.k = "int" -> (IF x.m < 0 THEN <<"-">> ELSE <<>>) \o IntStr(Abs(x.m))
      [] x.k = "str" -> x.s

\* int(x): truncation of a float, the value of an int, the parse of a string
PyInt(x) ==
    CASE x.k = "float" ->
            [ok |-> TRUE,
             v |-> IF x.m < 0 THEN 0 - (Abs(x.m) \div Pow10(x.e))
                   ELSE x.m \div Pow10(x.e)]
      [] x.k = "int" -> [ok |-> TRUE, v |-> x.m]
      [] x.k = "str" ->
            LET neg == x.s # <<>> /\ x.s[1] = "-"
                body == IF neg THEN Tail(x.s) ELSE x.s
            IN  IF body # <<>> /\ AllIn(body, DecimalDigits)
                THEN [ok |-> TRUE,
                      v |-> IF neg THEN 0 - DigitsValue(body) ELSE DigitsValue(body)]
                ELSE [ok |-> FALSE, v |-> 0]

\* e = lambda x: "" if x == 0.0 else str(x)
e_lambda(x) == IF x.k # "str" /\ x.m = 0 THEN <<>> ELSE PyStr(x)

Tuple(fs) == [kind |-> "tuple", f |-> fs]
Scalar == [kind |-> "scalar", f |-> <<>>]

ListDoc(rows) == [kind |-> "list", items |-> rows]
NoneDoc == [kind |-> "none", items |-> <<>>]
ScalarDoc == [kind |-> "scalar", items |-> <<>>]
Unreadable == [kind |-> "unreadable", items |-> <<>>]
NoFile == [kind |-> "missing", items |-> <<>>]

\* ----------------------------------------------------------------- Store
Keys(d) == {d[i].id : i \in 1..Len(d)}

\* self.storage[id] = values: a present key keeps its place in the order
DictSet(d, k, v) ==
    IF k \in Keys(d)
    THEN [i \in 1..Len(d) |-> IF d[i].id = k THEN [id |-> k, row |-> v] ELSE d[i]]
    ELSE Append(d, [id |-> k, row |-> v])

\* del self.storage[id], for a key that is present
DictDel(d, k) == SelectSeq(d, LAMBDA it : it.id # k)

\* Store.add: the identifier is the current size of the mapping
NewId(d) == Len(d)

\* Store.values()
values(d, txt) ==
    [i \in 1..Len(d) |->
        <<to_float(txt[d[i].row][1]), to_float(txt[d[i].row][2]),
          to_float(txt[d[i].row][3])>>]

\* ----------------------------------------------------------------- units
UnitIds == {0, 1}

UnitName(u) == IF u = 0 THEN "Inches" ELSE "Centimeter"

\* round half to even of num / den, den > 0
RoundHalfEven(num, den) ==
    LET q == num \div den
        r == num - q * den
    IN  IF 2 * r < den THEN q
        ELSE IF 2 * r > den THEN q + 1
        ELSE IF q % 2 = 0 THEN q ELSE q + 1

\* 12**2, and 0.032808399**2 * 100 to six significant digits over 10^6
SqInchesPerSqFoot == 144
CmFactor == 107639

\* round(unit["calc"](value), 2), in hundredths
_convert_to_feet(u, x) ==
    IF u = 0
    THEN Norm(RoundHalfEven(x.m * 100, SqInchesPerSqFoot * Pow10(x.e)), 2)
    ELSE Norm(RoundHalfEven(x.m * CmFactor, Pow10(6 + x.e)), 2)

\* --------------------------------------------------------------- windows
\* The part of a window that row creation and deletion act on.
Win(fr, hd, tx, st, asg) ==
    [frames |-> fr, handle |-> hd, text |-> tx, storage |-> st, assigned |-> asg]

Cur == Win(frames, handle, text, storage, assigned)

\* a new frame object: the least object id not in use
Fresh(fr) == CHOOSE r \in 1..(Cardinality(fr) + 1) :
                 r \notin fr /\ \A q \in 1..(r - 1) : q \in fr

DefaultRow == Tuple(<<FloatV(Zero), FloatV(Zero), FloatV(One)>>)
EmptyTuple == Tuple(<<>>)

\* Window._load_row(values=row) for a sized row; Store.add included
_load_row(w, row) ==
    LET v == IF Len(row.f) = 3 THEN row.f ELSE DefaultRow.f
        r == Fresh(w.frames)
        id == NewId(w.storage)
    IN  Win(w.frames \cup {r},
            (r :> id) @@ w.handle,
            (r :> <<e_lambda(v[1]), e_lambda(v[2]), e_lambda(v[3])>>) @@ w.text,
            DictSet(w.storage, id, r),
            w.assigned \cup {id})

\* destroy(): frame.destroy(), then del self.storage[id]
Restrict(f, S) == [x \in S |-> f[x]]

\* a faulty destroy(): a missing key removes the last item instead of raising
destroyPopLast(w, r) ==
    LET fr == w.frames \ {r} IN
    Win(fr, Restrict(w.handle, fr), Restrict(w.text, fr),
        IF w.handle[r] \in Keys(w.storage) THEN DictDel(w.storage, w.handle[r])
        ELSE SubSeq(w.storage, 1, Len(w.storage) - 1),
        w.assigned)

destroy(w, r) ==
    LET fr == w.frames \ {r} IN
    Win(fr, Restrict(w.handle, fr), Restrict(w.text, fr),
        IF w.handle[r] \in Keys(w.storage) THEN DictDel(w.storage, w.handle[r])
        ELSE w.storage,
        w.assigned)

\* Window._clear_input()
_clear_input(w) == Win({}, << >>, << >>, << >>, w.assigned)

\* UI._calc: result = 0.0; for row in values: result += row[0]*row[1]*row[2]
RECURSIVE Accumulate(_, _, _)
Accumulate(acc, vs, i) ==
    IF i > Len(vs) THEN acc
    ELSE Accumulate(Plus(acc, Mul(Mul(vs[i][1], vs[i][2]), vs[i][3])), vs, i + 1)

\* a faulty sum: length * width without the count
RawResultNoCount(d, txt) ==
    LET vs == values(d, txt)
        RECURSIVE Acc(_, _)
        Acc(acc, i) == IF i > Len(vs) THEN acc
                       ELSE Acc(Plus(acc, Mul(vs[i][1], vs[i][2])), i + 1)
    IN  Acc(Zero, 1)

RawResult(d, txt) == Accumulate(Zero, values(d, txt), 1)

\* Window._load_result: the unit lookup raises KeyError for an unknown unit
_load_result(u, raw) ==
    [name |-> UnitName(u), raw |-> raw, feet |-> _convert_to_feet(u, raw)]

\* ------------------------------------------------------------ UI._load
\* for row in data: self._load_row(values=row); len() of an unsized row raises
RECURSIVE LoadRows(_, _, _)
LoadRows(w, rows, i) ==
    IF i > Len(rows) THEN [w |-> w, out |-> "ok"]
    ELSE IF rows[i].kind # "tuple" THEN [w |-> w, out |-> "TypeError"]
    ELSE LoadRows(_load_row(w, rows[i]), rows, i + 1)

\* The handler after the file dialog returned: what is left of the window,
\* the unit selection, how the handler ended, and whether _calc was reached.
LoadOutcome(w, u, doc) ==
    LET keep == [w |-> w, unit |-> u, calc |-> FALSE]
        w1 == _clear_input(w)
        cleared == [w |-> w1, unit |-> u, calc |-> FALSE]
        sentinel == doc.items[1]
        uval == PyInt(sentinel.f[3])
        loaded == LoadRows(w1, Tail(doc.items), 1)
    IN  IF doc.kind \in {"unreadable", "missing"} THEN keep @@ [out |-> "failed"]
        ELSE IF doc.kind = "none" THEN keep @@ [out |-> "ok"]
        ELSE IF doc.kind # "list" THEN cleared @@ [out |-> "TypeError"]
        ELSE IF doc.items = <<>> THEN cleared @@ [out |-> "IndexError"]
        ELSE IF sentinel.kind # "tuple" THEN cleared @@ [out |-> "TypeError"]
        ELSE IF Len(sentinel.f) < 3 THEN cleared @@ [out |-> "IndexError"]
        ELSE IF ~uval.ok THEN cleared @@ [out |-> "ValueError"]
        ELSE IF loaded.out # "ok"
             THEN [w |-> loaded.w, unit |-> uval.v, calc |-> FALSE, out |-> loaded.out]
        ELSE [w |-> loaded.w, unit |-> uval.v, calc |-> TRUE,
              out |-> IF uval.v \in UnitIds THEN "ok" ELSE "KeyError"]

\* UI._save: data = values(); data.insert(0, (-1, -1, unit_id))
SavedDoc(d, txt, u) ==
    LET vs == values(d, txt) IN
    ListDoc(<<Tuple(<<IntV(0 - 1), IntV(0 - 1), IntV(u)>>)>>
            \o [i \in 1..Len(vs) |->
                   Tuple(<<FloatV(vs[i][1]), FloatV(vs[i][2]), FloatV(vs[i][3])>>)])

\* --------------------------------------------------------------- inputs
\* Texts the user types into an entry between two handlers (Spec).
EditTexts == {<<"2">>}

\* Keys of the keyboard (SpecEntry).
KeySet == {"0", "1", "2", ".", "-", "a", "sup2"}

Sentinel(u) == Tuple(<<IntV(0 - 1), IntV(0 - 1), u>>)
RowA == Tuple(<<FloatV(Norm(2, 0)), FloatV(Norm(35, 1)), FloatV(One)>>)
RowJunk == Tuple(<<StrV(<<"a">>), StrV(<<"3", ".", "5">>), FloatV(Zero)>>)

\* Files other than the saved one that the open dialog can pick (SpecFile).
ForeignDocs ==
    { Unreadable, NoneDoc, ScalarDoc, ListDoc(<<>>),
      ListDoc(<<Tuple(<<IntV(0 - 1), IntV(0 - 1)>>)>>),
      ListDoc(<<Sentinel(StrV(<<"a">>)), RowA>>),
      ListDoc(<<Sentinel(IntV(2)), RowA>>),
      ListDoc(<<Sentinel(IntV(1)), RowA, Scalar>>),
      ListDoc(<<Sentinel(IntV(0)), Tuple(<<IntV(2), IntV(3)>>)>>),
      ListDoc(<<Sentinel(IntV(1)), RowJunk, RowA>>) }

\* ----------------------------------------------------------------- state
Ev(op, out) == [op |-> op, out |-> out]

SetWin(w) ==
    /\ frames' = w.frames
    /\ handle' = w.handle
    /\ text' = w.text
    /\ storage' = w.storage
    /\ assigned' = w.assigned

\* App(): Window.__init__ with input_data = [] loads one default row and
\* calls _calc.
Init ==
    LET w == _load_row(Win({}, << >>, << >>, << >>, {}), EmptyTuple) IN
    /\ frames = w.frames
    /\ handle = w.handle
    /\ text = w.text
    /\ storage = w.storage
    /\ assigned = w.assigned
    /\ unit_id = 0
    /\ result = _load_result(0, RawResult(w.storage, w.text))
    /\ file = NoFile
    /\ event = Ev("init", "ok")

\* "Add Input Row" button, <Return>, <KP_Enter>
AddRow ==
    /\ Cardinality(frames) < MaxRows
    /\ \E w \in {_load_row(Cur, EmptyTuple)} : SetWin(w)
    /\ event' = Ev("add", "ok")
    /\ UNCHANGED <<unit_id, result, file>>

\* "Delete" button of row frame r
DeleteRow(r) ==
    /\ r \in frames
    /\ \E w \in {destroy(Cur, r)} : SetWin(w)
    /\ event' = Ev("delete", IF handle[r] \in Keys(storage) THEN "ok" ELSE "KeyError")
    /\ UNCHANGED <<unit_id, result, file>>

\* the user leaves entry j of row r holding text t
EditField(r, j, t) ==
    /\ r \in frames
    /\ text[r][j] # t
    /\ text' = [text EXCEPT ![r][j] = t]
    /\ event' = Ev("edit", "ok")
    /\ UNCHANGED <<frames, handle, storage, assigned, unit_id, result, file>>

\* one of the two radio buttons
SelectUnit(u) ==
    /\ u \in UnitIds
    /\ unit_id # u
    /\ unit_id' = u
    /\ event' = Ev("unit", "ok")
    /\ UNCHANGED <<frames, handle, text, storage, assigned, result, file>>

\* "Calculate" button, <space>
Calc ==
    /\ IF unit_id \in UnitIds
       THEN /\ result' = _load_result(unit_id, RawResult(storage, text))
            /\ event' = Ev("calc", "ok")
       ELSE /\ result' = result
            /\ event' = Ev("calc", "KeyError")
    /\ UNCHANGED <<frames, handle, text, storage, assigned, unit_id, file>>

\* "Save" with a file name chosen
Save ==
    /\ file' = SavedDoc(storage, text, unit_id)
    /\ event' = Ev("save", "ok")
    /\ UNCHANGED <<frames, handle, text, storage, assigned, unit_id, result>>

\* "Save" with the dialog cancelled: open("") raises inside the try
SaveCancel ==
    /\ event' = Ev("save", "failed")
    /\ UNCHANGED <<frames, handle, text, storage, assigned, unit_id, result, file>>

LoadDoc(op, doc) ==
    \E o \in {LoadOutcome(Cur, unit_id, doc)} :
    /\ SetWin(o.w)
    /\ unit_id' = o.unit
    /\ result' = IF o.calc /\ o.out = "ok"
                 THEN _load_result(o.unit, RawResult(o.w.storage, o.w.text))
                 ELSE result
    /\ event' = Ev(op, o.out)
    /\ UNCHANGED file

\* "Open" picking the file that Save wrote (missing before the first Save)
LoadSaved == LoadDoc("load_saved", file)

\* "Open" picking another file
LoadForeign(doc) == doc \in ForeignDocs /\ LoadDoc("load_foreign", doc)

\* "Open" with the dialog cancelled: open("") raises inside the try
LoadCancel == LoadDoc("load_cancel", Unreadable)

\* a key press inserting key at position pos of the entry that has the focus
\* (the length entry of the initial row, the only row of SpecEntry); new_val,
\* val and key are the substitutions %P, %s and %S
FocusRow == CHOOSE r \in frames : \A q \in frames : q <= r

KeyInsert(pos, key) ==
    LET val == text[FocusRow][1]
        new_val == SubSeq(val, 1, pos) \o <<key>> \o SubSeq(val, pos + 1, Len(val))
        ok == _validate_entry(new_val, val, key)
    IN  /\ frames # {}
        /\ pos \in 0..Len(val)
        /\ Len(val) < MaxLen
        /\ text' = IF ok THEN [text EXCEPT ![FocusRow][1] = new_val] ELSE text
        /\ event' = Ev("key", IF ok THEN "accepted" ELSE "rejected")
        /\ UNCHANGED <<frames, handle, storage, assigned, unit_id, result, file>>

\* BackSpace/Delete removing the character at position pos
KeyDelete(pos) ==
    LET val == text[FocusRow][1]
        key == val[pos]
        new_val == SubSeq(val, 1, pos - 1) \o SubSeq(val, pos + 1, Len(val))
        ok == _validate_entry(new_val, val, key)
    IN  /\ frames # {}
        /\ pos \in 1..Len(val)
        /\ text' = IF ok THEN [text EXCEPT ![FocusRow][1] = new_val] ELSE text
        /\ event' = Ev("key", IF ok THEN "accepted" ELSE "rejected")
        /\ UNCHANGED <<frames, handle, storage, assigned, unit_id, result, file>>

\* ------------------------------------------------------- specifications
\* Rows, edits and Calculate of one window.
Next ==
    \/ AddRow
    \/ \E r \in frames : DeleteRow(r)
    \/ \E r \in frames, j \in 1..3, t \in EditTexts : EditField(r, j, t)
    \/ Calc

Spec == Init /\ [][Next]_vars

\* Delete, unit, Calculate, Save and Open of one window.
NextFile ==
    \/ \E r \in frames : DeleteRow(r)
    \/ \E u \in UnitIds : SelectUnit(u)
    \/ Calc
    \/ Save
    \/ SaveCancel
    \/ LoadSaved
    \/ \E doc \in ForeignDocs : LoadForeign(doc)
    \/ LoadCancel

SpecFile == Init /\ [][NextFile]_vars

\* Key presses in the focused entry of the initial window.
NextEntry ==
    \/ \E pos \in 0..MaxLen, key \in KeySet : KeyInsert(pos, key)
    \/ \E pos \in 1..MaxLen : KeyDelete(pos)

SpecEntry == Init /\ [][NextEntry]_vars

\* ------------------------------------------------------------ properties
Snapshot == values(storage, text)

StoredRows(d) == {d[i].row : i \in 1..Len(d)}

\* The object id of a destroyed frame is reused only when nothing refers to
\* it: every stored row belongs to a live frame.
StoredRowsAlive ==
    /\ StoredRows(storage) \subseteq frames
    /\ DOMAIN handle = frames
    /\ DOMAIN text = frames

\* the sum of length * width * count over a snapshot
RECURSIVE TotalArea(_)
TotalArea(vs) ==
    IF vs = <<>> THEN Zero
    ELSE LET n == Len(vs) IN
         Plus(TotalArea(SubSeq(vs, 1, n - 1)), Mul(vs[n][1], Mul(vs[n][2], vs[n][3])))

\* the rows and the unit index of a saved document
FileRows(doc) ==
    [i \in 1..(Len(doc.items) - 1) |->
        LET f == doc.items[i + 1].f IN
        <<[m |-> f[1].m, e |-> f[1].e], [m |-> f[2].m, e |-> f[2].e],
          [m |-> f[3].m, e |-> f[3].e]>>]

FileUnit(doc) == doc.items[1].f[3].m

\* "digits, optionally a single decimal point and further digits"
DecimalInProgress(t) ==
    /\ t # <<>>
    /\ t[1] \in DecimalDigits
    /\ AllIn(t, DecimalDigits \cup {"."})
    /\ Cardinality({i \in 1..Len(t) : t[i] = "."}) <= 1

\* C1: the length of Store.values() equals the number of rows currently
\* present (rows added minus rows whose delete handle was invoked).
C1_SnapshotLengthIsRowCount == Len(Snapshot) = Cardinality(frames)

\* C2: the identifier an add assigns differs from every identifier assigned
\* by an earlier add of the session.
C2_IdentifiersNeverReused == [][AddRow => NewId(storage) \notin assigned]_vars

\* C3: a delete handle removes exactly the row its add inserted and leaves
\* every other row stored with unchanged texts; an add keeps every row that
\* is already stored.
C3_DeleteRemovesOwnRowOnly ==
    [][/\ \A r \in frames :
            DeleteRow(r) =>
                /\ r \in StoredRows(storage)
                /\ StoredRows(storage') = StoredRows(storage) \ {r}
                /\ \A q \in StoredRows(storage') : text'[q] = text[q]
       /\ AddRow => StoredRows(storage) \subseteq StoredRows(storage')]_vars

\* C4: a delete handle whose identifier is not a key of the store leaves the
\* mapping and the stored rows' texts as they were and ends in an error.
C4_UnknownHandleLeavesStore ==
    [][\A r \in frames :
          (frames' = frames \ {r} /\ handle[r] \notin Keys(storage) /\ DeleteRow(r)) =>
              /\ storage' = storage
              /\ \A q \in StoredRows(storage) : text'[q] = text[q]
              /\ event' = Ev("delete", "KeyError")]_vars

C4_Witness ==
    /\ event = Ev("delete", "KeyError")
    /\ storage # <<>>

\* C5: Calculate shows as raw result the sum of length * width * count over
\* the rows of the snapshot, 0.0 for an empty store, and leaves the store,
\* the texts and the unit selection unchanged.
C5_CalcIsTotalArea ==
    [][(event'.op = "calc" /\ Calc) =>
          /\ result'.raw = TotalArea(Snapshot)
          /\ (storage = <<>> => result'.raw = Zero)
          /\ UNCHANGED <<storage, text, frames, unit_id>>]_vars

C5_Witness ==
    /\ event = Ev("calc", "ok")
    /\ Len(storage) >= 2
    /\ \A i \in 1..Len(storage) :
          Mul(Snapshot[i][1], Mul(Snapshot[i][2], Snapshot[i][3])) # Zero
    /\ \E i \in 1..Len(storage) : Snapshot[i][3] # One
    /\ result.raw = TotalArea(Snapshot)

\* C6: Save writes the snapshot and the unit index, and Open of the saved
\* document restores that snapshot, in order, and that unit index.
C6_SaveLoadRoundTrip ==
    [][/\ (event'.op = "save" /\ Save) =>
              (FileRows(file') = Snapshot /\ FileUnit(file') = unit_id)
       /\ (event'.op = "load_saved" /\ file.kind = "list" /\ LoadSaved) =>
              (Snapshot' = FileRows(file) /\ unit_id' = FileUnit(file))]_vars

C6_Witness ==
    /\ event = Ev("load_saved", "ok")
    /\ file.kind = "list"
    /\ Snapshot = FileRows(file)
    /\ Len(Snapshot) >= 2
    /\ unit_id = 1
    /\ \E i \in 1..Len(Snapshot) : Snapshot[i][1] = Zero /\ Snapshot[i][2] # Zero
    /\ \E i \in 1..Len(Snapshot) : Snapshot[i][2].e > 0

\* C7: an Open that fails (dialog cancelled, file unreadable, document not a
\* sequence of triples) leaves the snapshot and the unit selection as they
\* were.
FailedLoad(doc) ==
    LoadOutcome(Cur, unit_id, doc).out \in {"failed", "TypeError", "IndexError", "ValueError"}

C7_FailedLoadKeepsState ==
    [][(\/ LoadSaved /\ FailedLoad(file)
        \/ LoadCancel
        \/ \E doc \in ForeignDocs : LoadForeign(doc) /\ FailedLoad(doc))
       => (Snapshot' = Snapshot /\ unit_id' = unit_id)]_vars

\* C8: the unit selection is always 0 (Inches) or 1 (Centimeters).
C8_UnitInTable == unit_id \in UnitIds

\* C9: Store.values() has one triple per stored row, and each field is the
\* number float() gives for its text, or 0.0 when float() raises ("" and
\* "a" give 0.0, "3.5" gives 3.5).
C9_ValuesParseOrZero ==
    /\ Len(Snapshot) = Len(storage)
    /\ \A i \in 1..Len(storage) : \A j \in 1..3 :
          LET t == text[storage[i].row][j]
              x == Snapshot[i][j]
          IN  /\ x # ValueError
              /\ x.e >= 0
              /\ (PyFloat(t) # ValueError => x = PyFloat(t))
              /\ (PyFloat(t) = ValueError => x = Zero)
              /\ (t = <<>> => x = Zero)
              /\ (t = <<"a">> => x = Zero)
              /\ (t = <<"3", ".", "5">> => x = [m |-> 35, e |-> 1])

C9_Witness ==
    /\ event.op \in {"calc", "save"}
    /\ \E i \in 1..Len(storage) : \E j \in 1..3 : text[storage[i].row][j] = <<"a">>
    /\ \E i \in 1..Len(storage) : \E j \in 1..3 : text[storage[i].row][j] = <<>>
    /\ \E i \in 1..Len(storage) : \E j \in 1..3 :
          text[storage[i].row][j] = <<"3", ".", "5">>

\* C10: the text of an entry edited by single key presses is empty or a
\* non-negative decimal number in progress.
C10_EntryIsDecimalInProgress ==
    \A r \in frames :
        text[r][1] = <<>> \/ DecimalInProgress(text[r][1])

====
